---- MODULE Spec2Model ----
(***************************************************************************)
(* Model of xviz.py: the polling thread (PollThread / XbeePollThread), the *)
(* wx event queue that carries AccelDataEvent to the GUI thread, the       *)
(* sliding window of graphWindow, and the recording logic of xvizFrame.    *)
(*                                                                         *)
(* Accelerations are floats in the source; the model keeps them as         *)
(* integers in thousandths of g (2.0 g = 2000).  Times are integer ticks   *)
(* of time.time().                                                         *)
(***************************************************************************)
EXTENDS Integers, Sequences, FiniteSets, TLC

(* ---------------------------- bounds ---------------------------------- *)
MaxPolls == 2       \* frames read by poll_once in one run
MaxTime == 2        \* largest value of time.time()
MaxExports == 2     \* recording sessions that reach the export step
MaxAdds == 11       \* add_point calls on one graphWindow (SpecWindow)
MaxDoublings == 4   \* iterations followed in one "while" loop of _add_point

(* ----------------------- program constants ---------------------------- *)
ACCELEROMETER_MV_PER_G == 660
ACCELEROMETER_MAX_XYZ == 2000
ACCELEROMETER_MIN_XYZ == -2000
ACCELEROMETER_OFFSET == 1650
ACCELEROMETER_DIVIDER == 1
XBEE_POLLING_FREQUENCY == 50
XBEE_VREF == 3300
DISPLAY_TIME_SECONDS == 3

\* xScreen, yScreen, zScreen
Channels == 1..3

\* "samples" of the frames wait_read_frame can return: adc-0, adc-1, adc-2
AdcFrames == { <<512, 512, 512>>, <<0, 1023, 512>> }

\* inputs of the graphWindow unit specification
Capacities == {1, 3, 10}
ValueRanges == { <<-1, 1>>, <<-100, 100>> }
Values == {-3, 0, 5}

VARIABLES
    pc,             \* position of PollThread.run
    _should_quit,   \* PollThread._should_quit
    thread_exc,     \* the exception that ended run(), "none" if none
    queue,          \* pending AccelDataEvent of the wx event queue (data)
    gui,            \* GUI thread: "idle", "joining" (in poller.join), "exited"
    recording,      \* xvizFrame.recording
    recorder,       \* xvizFrame.recorder
    record_start,   \* xvizFrame.record_start
    status,         \* xvizFrame.status
    screens,        \* xScreen, yScreen, zScreen
    csv_files,      \* files written by save_curves
    png_files,      \* series rendered by plot_curves
    now,            \* time.time()
    sent,           \* history: data of every event posted by poll_once
    applied,        \* history: data of every event handled by onNewData
    added,          \* history: per screen, every value given to add_point
    session,        \* history: data handled since recording last became True
    handed,         \* history: the recorder each export step was given
    queue_time,     \* history: time.time() when each pending event was posted
    sent_at_stop,   \* history: events posted so far when stop() was called
    lastOp          \* history: the handler the GUI thread ran last

vars == << pc, _should_quit, thread_exc, queue, gui, recording, recorder,
           record_start, status, screens, csv_files, png_files, now,
           sent, applied, added, session, handed, queue_time, sent_at_stop,
           lastOp >>

(* ------------------------- pure helpers ------------------------------- *)

\* Python s[k:]
PySliceFrom(s, k) ==
    LET start == IF k < 0 THEN (IF Len(s) + k < 0 THEN 0 ELSE Len(s) + k)
                 ELSE k
    IN  SubSeq(s, start + 1, Len(s))

\* XbeePollThread.poll_once.adc_to_accel, in thousandths of g
\* (the source's float result, rounded down to a whole thousandth; the
\* division by 1024 is moved to the end to keep the arithmetic in integers)
adc_to_accel(adc) ==
    (((ACCELEROMETER_DIVIDER * (adc * XBEE_VREF)) - ACCELEROMETER_OFFSET * 1024) * 1000)
        \div (1024 * ACCELEROMETER_MV_PER_G)

\* PostEvent putting the event in front of the pending ones
PostEvent_front(q, data) == << data >> \o q

\* wx.PostEvent: the event goes to the back of the pending events
PostEvent(q, data) == Append(q, data)

(* --------------------------- graphWindow ------------------------------ *)

graphWindow == [ points |-> <<>>, xrange |-> <<0, 100>>, yrange |-> <<-100, 100>> ]

set_value_range(w, _min, _max) == [w EXCEPT !.yrange = <<_min, _max>>]

set_time_range(w, _max) == [w EXCEPT !.xrange = <<0, _max>>]

\* "if" in place of "while": the bound is doubled once
GrowMax_once(_value, _max) ==
    IF _value > _max THEN 2 * _max ELSE _max

\* the loop below with _max = _max / 2 as its body
RECURSIVE WhileAbove_halving(_, _, _)
WhileAbove_halving(_value, _max, n) ==
    IF ~(_value > _max) THEN [bound |-> _max, ended |-> TRUE]
    ELSE IF n = 0 THEN [bound |-> _max, ended |-> FALSE]
    ELSE WhileAbove_halving(_value, _max \div 2, n - 1)

\* while _value > _max: _max = 2 * _max, followed for at most n iterations:
\* the bound reached, and whether the loop has ended
RECURSIVE WhileAbove(_, _, _)
WhileAbove(_value, _max, n) ==
    IF ~(_value > _max) THEN [bound |-> _max, ended |-> TRUE]
    ELSE IF n = 0 THEN [bound |-> _max, ended |-> FALSE]
    ELSE WhileAbove(_value, 2 * _max, n - 1)

\* while _value < _min: _min = 2 * _min, in the same way
RECURSIVE WhileBelow(_, _, _)
WhileBelow(_value, _min, n) ==
    IF ~(_value < _min) THEN [bound |-> _min, ended |-> TRUE]
    ELSE IF n = 0 THEN [bound |-> _min, ended |-> FALSE]
    ELSE WhileBelow(_value, 2 * _min, n - 1)

\* _max after the first loop
GrowMax(_value, _max) == WhileAbove(_value, _max, MaxDoublings).bound

\* the bound is moved to the value instead of being doubled
GrowMin_to_value(_value, _min) ==
    IF _value < _min THEN _value ELSE _min

\* _min after the second loop
GrowMin(_value, _min) == WhileBelow(_value, _min, MaxDoublings).bound

\* _add_point testing len(self.points) > fullrange
_add_point_late_cut(w, _value) ==
    LET fullrange == w.xrange[2]
        cutrange  == fullrange \div 10
        kept      == IF Len(w.points) > fullrange
                     THEN PySliceFrom(w.points, fullrange - cutrange)
                     ELSE w.points
    IN  [w EXCEPT !.points = Append(kept, _value),
                  !.yrange = << GrowMin(_value, w.yrange[1]),
                                GrowMax(_value, w.yrange[2]) >>]

\* _add_point keeping self.points[:cutrange], the oldest points
_add_point_keep_oldest(w, _value) ==
    LET fullrange == w.xrange[2]
        cutrange  == fullrange \div 10
        kept      == IF Len(w.points) >= fullrange
                     THEN SubSeq(w.points, 1, cutrange)
                     ELSE w.points
    IN  [w EXCEPT !.points = Append(kept, _value),
                  !.yrange = << GrowMin(_value, w.yrange[1]),
                                GrowMax(_value, w.yrange[2]) >>]

_add_point(w, _value) ==
    LET fullrange == w.xrange[2]
        cutrange  == fullrange \div 10
        kept      == IF Len(w.points) >= fullrange
                     THEN PySliceFrom(w.points, fullrange - cutrange)
                     ELSE w.points
    IN  [w EXCEPT !.points = Append(kept, _value),
                  !.yrange = << GrowMin(_value, w.yrange[1]),
                                GrowMax(_value, w.yrange[2]) >>]

\* the redraw asked with wx.CallAfter paints and changes no data
add_point(w, value) == _add_point(w, value)

(* ----------------------------- export --------------------------------- *)

\* save_curves writing t, the absolute time, in place of t-start_time
save_curves_absolute(log, start_time) ==
    [ start |-> start_time,
      lines |-> [i \in 1..Len(log) |->
                    << log[i][1], log[i][2], log[i][3], log[i][4] >>] ]

\* the lines save_curves writes after the header
save_curves(log, start_time) ==
    [ start |-> start_time,
      lines |-> [i \in 1..Len(log) |->
                    << log[i][1] - start_time, log[i][2], log[i][3], log[i][4] >>] ]

\* datax, datay, dataz of plot_curves
plot_curves(log, start_time) ==
    [ start |-> start_time,
      series |-> [c \in Channels |->
                    [i \in 1..Len(log) |-> << log[i][1] - start_time, log[i][c + 1] >>]] ]

(* ------------------------------ Init ---------------------------------- *)

\* a screen as xvizFrame.__init__ configures it
NewScreen ==
    set_time_range(
        set_value_range(graphWindow, ACCELEROMETER_MIN_XYZ, ACCELEROMETER_MAX_XYZ),
        XBEE_POLLING_FREQUENCY * DISPLAY_TIME_SECONDS)

\* everything but the screens when xvizFrame.__init__ returns: the poller
\* has been started
InitFrame ==
    /\ pc = "init"
    /\ _should_quit = FALSE
    /\ thread_exc = "none"
    /\ queue = <<>>
    /\ gui = "idle"
    /\ recording = FALSE
    /\ recorder = <<>>
    /\ record_start = 0
    /\ status = 0
    /\ csv_files = <<>>
    /\ png_files = <<>>
    /\ now = 1
    /\ sent = <<>>
    /\ applied = <<>>
    /\ added = [c \in Channels |-> <<>>]
    /\ session = <<>>
    /\ handed = <<>>
    /\ queue_time = <<>>
    /\ sent_at_stop = 0
    /\ lastOp = "none"

Init ==
    /\ InitFrame
    /\ screens = [c \in Channels |-> NewScreen]

threadVars == << pc, _should_quit, thread_exc, queue, sent, queue_time, sent_at_stop >>
frameVars == << recording, recorder, record_start, status, screens,
                csv_files, png_files, applied, added, session, handed >>

(* ------------------------- the poller thread -------------------------- *)

\* run() going on to the loop although poll_init raised
PollInit_error_ignored ==
    /\ pc = "init"
    /\ \/ /\ pc' = "loop"
          /\ thread_exc' = thread_exc
       \/ /\ pc' = "loop"
          /\ thread_exc' = "poll_init"
    /\ lastOp' = lastOp
    /\ UNCHANGED << _should_quit, queue, sent, queue_time, sent_at_stop, gui, now >>
    /\ UNCHANGED frameVars

\* run(): self.poll_init(); serial.Serial raises when the port cannot be opened
PollInit ==
    /\ pc = "init"
    /\ \/ /\ pc' = "loop"
          /\ thread_exc' = thread_exc
       \/ /\ pc' = "stopped"
          /\ thread_exc' = "poll_init"
    /\ lastOp' = lastOp
    /\ UNCHANGED << _should_quit, queue, sent, queue_time, sent_at_stop, gui, now >>
    /\ UNCHANGED frameVars

\* "while True": the loop never looks at _should_quit
LoopTest_ignores_flag ==
    /\ pc = "loop"
    /\ pc' = "polling"
    /\ lastOp' = lastOp
    /\ UNCHANGED << _should_quit, thread_exc, queue, sent, queue_time,
                    sent_at_stop, gui, now >>
    /\ UNCHANGED frameVars

\* the loop idles instead of ending once _should_quit is set
LoopTest_spins ==
    /\ pc = "loop"
    /\ pc' = IF _should_quit THEN "loop" ELSE "polling"
    /\ lastOp' = lastOp
    /\ UNCHANGED << _should_quit, thread_exc, queue, sent, queue_time,
                    sent_at_stop, gui, now >>
    /\ UNCHANGED frameVars

\* run(): while not self._should_quit
LoopTest ==
    /\ pc = "loop"
    /\ pc' = IF _should_quit THEN "cleanup" ELSE "polling"
    /\ lastOp' = lastOp
    /\ UNCHANGED << _should_quit, thread_exc, queue, sent, queue_time,
                    sent_at_stop, gui, now >>
    /\ UNCHANGED frameVars

\* poll_once: wait_read_frame returns a frame and its data is posted, or the
\* read or the frame lookup raises; run() catches nothing, so the exception
\* ends the thread
PollOnce ==
    /\ pc = "polling"
    /\ \/ /\ Len(sent) < MaxPolls
          /\ \E samples \in AdcFrames :
                LET data == << adc_to_accel(samples[1]),
                               adc_to_accel(samples[2]),
                               adc_to_accel(samples[3]) >>
                IN  /\ queue' = PostEvent(queue, data)
                    /\ sent' = Append(sent, data)
                    /\ queue_time' = Append(queue_time, now)
                    /\ pc' = "loop"
                    /\ thread_exc' = thread_exc
       \/ /\ pc' = "stopped"
          /\ thread_exc' = "poll_once"
          /\ UNCHANGED << queue, sent, queue_time >>
    /\ lastOp' = lastOp
    /\ UNCHANGED << _should_quit, sent_at_stop, gui, now >>
    /\ UNCHANGED frameVars

\* run(): self.poll_cleanup()
PollCleanup ==
    /\ pc = "cleanup"
    /\ pc' = "stopped"
    /\ lastOp' = lastOp
    /\ UNCHANGED << _should_quit, thread_exc, queue, sent, queue_time,
                    sent_at_stop, gui, now >>
    /\ UNCHANGED frameVars

(* --------------------------- the GUI thread --------------------------- *)

\* onStartBtn without its test of self.recording: every click stamps
\* record_start
OnStartBtn_restarts ==
    /\ gui = "idle"
    /\ Len(handed) < MaxExports
    /\ record_start' = now
    /\ session' = IF ~recording THEN <<>> ELSE session
    /\ recording' = TRUE
    /\ lastOp' = "start"
    /\ UNCHANGED << recorder, status, screens, csv_files, png_files,
                    applied, added, handed, gui, now >>
    /\ UNCHANGED threadVars

OnStartBtn ==
    /\ gui = "idle"
    /\ Len(handed) < MaxExports
    /\ record_start' = IF ~recording THEN now ELSE record_start
    /\ session' = IF ~recording THEN <<>> ELSE session
    /\ recording' = TRUE
    /\ lastOp' = "start"
    /\ UNCHANGED << recorder, status, screens, csv_files, png_files,
                    applied, added, handed, gui, now >>
    /\ UNCHANGED threadVars

\* what open(), write() and the rendering do is up to the file system
ExportOutcomes == {"ok", "save_error", "plot_error"}

\* the reset of the session put in a "finally": it runs whatever the
\* export does
StopAndExport_always_resets ==
    \E outcome \in ExportOutcomes :
        /\ recording' = FALSE
        /\ handed' = Append(handed, [log |-> recorder, session |-> session])
        /\ record_start' = 0
        /\ recorder' = <<>>
        /\ IF outcome = "save_error"
           THEN UNCHANGED << csv_files, png_files >>
           ELSE /\ csv_files' = Append(csv_files, save_curves(recorder, record_start))
                /\ IF recorder = <<>> \/ outcome = "plot_error"
                   THEN UNCHANGED << png_files >>
                   ELSE png_files' = Append(png_files, plot_curves(recorder, record_start))

\* the body of "if self.recording:" in onStopBtn; an exception raised by
\* save_curves or plot_curves ends the handler where it is raised
StopAndExport ==
    \E outcome \in ExportOutcomes :
        /\ recording' = FALSE
        /\ handed' = Append(handed, [log |-> recorder, session |-> session])
        /\ IF outcome = "save_error"
           THEN UNCHANGED << csv_files, png_files, record_start, recorder >>
           ELSE /\ csv_files' = Append(csv_files, save_curves(recorder, record_start))
                /\ IF recorder = <<>> \/ outcome = "plot_error"
                   THEN \* self.recorder[-1] raised IndexError, or the
                        \* rendering raised
                        UNCHANGED << png_files, record_start, recorder >>
                   ELSE /\ png_files' = Append(png_files, plot_curves(recorder, record_start))
                        /\ record_start' = 0
                        /\ recorder' = <<>>

\* onStopBtn without its test of self.recording
OnStopBtn_unguarded ==
    /\ gui = "idle"
    /\ Len(handed) <= MaxExports
    /\ StopAndExport
    /\ lastOp' = "stop"
    /\ UNCHANGED << status, screens, applied, added, session, gui, now >>
    /\ UNCHANGED threadVars

OnStopBtn ==
    /\ gui = "idle"
    /\ IF recording
       THEN StopAndExport
       ELSE UNCHANGED << recording, handed, csv_files, png_files, record_start, recorder >>
    /\ lastOp' = "stop"
    /\ UNCHANGED << status, screens, applied, added, session, gui, now >>
    /\ UNCHANGED threadVars

\* onNewData without its test of self.recording
OnNewData_always_records ==
    /\ gui = "idle"
    /\ queue # <<>>
    /\ LET data == Head(queue)
           timestamp == now
       IN  /\ queue' = Tail(queue)
           /\ status' = 1
           /\ recorder' = Append(recorder, << timestamp, data[1], data[2], data[3] >>)
           /\ session' = IF recording THEN Append(session, data) ELSE session
           /\ screens' = [c \in Channels |-> add_point(screens[c], data[c])]
           /\ added' = [c \in Channels |-> Append(added[c], data[c])]
           /\ applied' = Append(applied, data)
    /\ lastOp' = "new_data"
    /\ UNCHANGED << recording, record_start, csv_files, png_files, handed, gui, now >>
    /\ queue_time' = Tail(queue_time)
    /\ UNCHANGED << pc, _should_quit, thread_exc, sent, sent_at_stop >>

OnNewData ==
    /\ gui = "idle"
    /\ queue # <<>>
    /\ LET data == Head(queue)
           timestamp == now
       IN  /\ queue' = Tail(queue)
           /\ status' = 1
           /\ recorder' = IF recording
                          THEN Append(recorder, << timestamp, data[1], data[2], data[3] >>)
                          ELSE recorder
           /\ session' = IF recording THEN Append(session, data) ELSE session
           /\ screens' = [c \in Channels |-> add_point(screens[c], data[c])]
           /\ added' = [c \in Channels |-> Append(added[c], data[c])]
           /\ applied' = Append(applied, data)
    /\ lastOp' = "new_data"
    /\ UNCHANGED << recording, record_start, csv_files, png_files, handed, gui, now >>
    /\ queue_time' = Tail(queue_time)
    /\ UNCHANGED << pc, _should_quit, thread_exc, sent, sent_at_stop >>

\* onClose up to the call of join: self.poller.stop()
OnClose ==
    /\ gui = "idle"
    /\ _should_quit' = TRUE
    /\ sent_at_stop' = Len(sent)
    /\ gui' = "joining"
    /\ lastOp' = "close"
    /\ UNCHANGED << pc, thread_exc, queue, sent, queue_time, now >>
    /\ UNCHANGED frameVars

\* onQuitBtn: self.Close() runs the EVT_CLOSE handler
OnQuitBtn ==
    /\ gui = "idle"
    /\ _should_quit' = TRUE
    /\ sent_at_stop' = Len(sent)
    /\ gui' = "joining"
    /\ lastOp' = "quit"
    /\ UNCHANGED << pc, thread_exc, queue, sent, queue_time, now >>
    /\ UNCHANGED frameVars

\* onClose from the return of join: self.app.Exit()
JoinReturn ==
    /\ gui = "joining"
    /\ pc = "stopped"
    /\ gui' = "exited"
    /\ lastOp' = "exit"
    /\ UNCHANGED << now >>
    /\ UNCHANGED threadVars
    /\ UNCHANGED frameVars

\* time passes
Tick ==
    /\ now < MaxTime
    /\ now' = now + 1
    /\ lastOp' = lastOp
    /\ UNCHANGED << gui >>
    /\ UNCHANGED threadVars
    /\ UNCHANGED frameVars

Next ==
    \/ PollInit
    \/ LoopTest
    \/ PollOnce
    \/ PollCleanup
    \/ OnStartBtn
    \/ OnStopBtn
    \/ OnNewData
    \/ OnClose
    \/ OnQuitBtn
    \/ JoinReturn
    \/ Tick

Spec == Init /\ [][Next]_vars

\* The run of the polling thread and of its owner alone: the recording
\* buttons and the clock, which touch nothing the thread reads, are left out.
\* The polling thread keeps being scheduled, and a poll_once that has been
\* entered returns (with a frame or with an exception).
NextLoop ==
    \/ PollInit
    \/ LoopTest
    \/ PollOnce
    \/ PollCleanup
    \/ OnNewData
    \/ OnClose
    \/ OnQuitBtn
    \/ JoinReturn

FairSpec ==
    /\ Init
    /\ [][NextLoop]_vars
    /\ WF_vars(PollInit)
    /\ WF_vars(LoopTest)
    /\ WF_vars(PollOnce)
    /\ WF_vars(PollCleanup)

(* ---------------- graphWindow on its own (SpecWindow) ------------------ *)

\* a graphWindow configured with set_value_range and set_time_range before
\* any data arrives
InitWindow ==
    /\ InitFrame
    /\ \E cap \in Capacities, r \in ValueRanges :
          screens = [c \in Channels |->
                        set_time_range(set_value_range(graphWindow, r[1], r[2]), cap)]

\* one call of add_point on the first window
AddPointCall ==
    /\ Len(added[1]) < MaxAdds
    /\ \E value \in Values :
          /\ screens' = [screens EXCEPT ![1] = add_point(@, value)]
          /\ added' = [added EXCEPT ![1] = Append(@, value)]
    /\ lastOp' = "add_point"
    /\ UNCHANGED << recording, recorder, record_start, status, csv_files,
                    png_files, applied, session, handed, gui, now >>
    /\ UNCHANGED threadVars

NextWindow == AddPointCall

SpecWindow == InitWindow /\ [][NextWindow]_vars

(* ------------------------------ claims -------------------------------- *)

\* the x, y, z of the entries of a recorder
DataOf(log) == [i \in 1..Len(log) |-> << log[i][2], log[i][3], log[i][4] >>]

Last(s) == s[Len(s)]

\* C1: whatever the interleaving of the two threads, the data handled by
\* onNewData, followed by the data still pending in the event queue, is the
\* data posted by poll_once, in the order posted: the handled data is a
\* prefix of the posted data and nothing is dropped, repeated or reordered.
C1_AppliedIsPrefixOfSent ==
    /\ Len(applied) <= Len(sent)
    /\ applied = SubSeq(sent, 1, Len(applied))
    /\ queue = SubSeq(sent, Len(applied) + 1, Len(sent))

\* two different samples posted, the first handled, the second pending
C1_Witness ==
    /\ Len(applied) = 1
    /\ Len(queue) = 1
    /\ applied[1] # queue[1]

\* C2: a poll_once call that fails does not end the loop: a step out of
\* poll_once always leads back to the test of the while loop.
C2_PollFailureKeepsLoopRunning ==
    [][pc = "polling" => pc' \in {"polling", "loop"}]_vars

\* C3: after every add_point the window holds at most as many points as the
\* upper bound of the xrange that set_time_range fixed.
C3_LenWithinCapacity ==
    \A c \in Channels : Len(screens[c].points) <= screens[c].xrange[2]

\* more values added than the window may hold
C3_Witness ==
    /\ Len(added[1]) > screens[1].xrange[2]
    /\ screens[1].points # <<>>

\* C4: after every add_point each retained point lies between the two
\* bounds of yrange.
C4_PointsWithinYrange ==
    \A c \in Channels :
        \A i \in 1..Len(screens[c].points) :
            /\ screens[c].yrange[1] <= screens[c].points[i]
            /\ screens[c].points[i] <= screens[c].yrange[2]

\* a retained point above and one below the range first configured
C4_Witness ==
    /\ screens[1].yrange = << -4, 8 >>
    /\ \E i, j \in 1..Len(screens[1].points) :
          /\ screens[1].points[i] = 5
          /\ screens[1].points[j] = -3

\* C5: an add_point on a full window (of a capacity of ten or more) drops
\* exactly the oldest capacity/10 points and keeps all the others.
C5_EvictsOldestTenth ==
    [][ \A c \in Channels :
          ( /\ added'[c] # added[c]
            /\ screens[c].xrange[2] >= 10
            /\ Len(screens[c].points) >= screens[c].xrange[2] )
          => screens'[c].points =
                Append(PySliceFrom(screens[c].points, screens[c].xrange[2] \div 10),
                       Last(added'[c])) ]_vars

\* C6: the retained points are the last Len(points) values given to
\* add_point, in the order given, and the value given last is the last point.
C6_PointsAreSuffixOfAdded ==
    \A c \in Channels :
        LET p == screens[c].points
            a == added[c]
        IN  /\ Len(p) <= Len(a)
            /\ p = SubSeq(a, Len(a) - Len(p) + 1, Len(a))
            /\ a # <<>> => (p # <<>> /\ Last(p) = Last(a))

\* a window of capacity 10 after the cut, its two points being different
C6_Witness ==
    /\ screens[1].xrange[2] = 10
    /\ Len(added[1]) = 11
    /\ Len(screens[1].points) = 2
    /\ screens[1].points[1] # screens[1].points[2]

\* new is old times the smallest power of two that makes it cover value
\* (above: old > 0 is an upper bound; otherwise old < 0 is a lower bound)
DoubledToCover(old, new, value, above) ==
    \E k \in 0..MaxDoublings :
        /\ new = old * (2 ^ k)
        /\ IF above THEN value <= new ELSE value >= new
        /\ k > 0 => IF above THEN value > old * (2 ^ (k - 1))
                             ELSE value < old * (2 ^ (k - 1))

\* C7: an add_point never narrows yrange, and each bound becomes the old
\* bound times the smallest power of two that covers the added value, which
\* leaves a bound that already covers the value as it was.
C7_YrangeGrowsByDoubling ==
    [][ \A c \in Channels :
          added'[c] # added[c] =>
            /\ screens'[c].yrange[1] <= screens[c].yrange[1]
            /\ screens'[c].yrange[2] >= screens[c].yrange[2]
            /\ DoubledToCover(screens[c].yrange[1], screens'[c].yrange[1],
                              Last(added'[c]), FALSE)
            /\ DoubledToCover(screens[c].yrange[2], screens'[c].yrange[2],
                              Last(added'[c]), TRUE) ]_vars

\* initial (-1, 1): the value 5 has given (-1, 8), then -3 has given (-4, 8)
C7_Witness ==
    /\ added[1] = << 5, -3 >>
    /\ screens[1].yrange = << -4, 8 >>

\* C8: the recorder given to the export step of a stop holds exactly the
\* data handled since the start that began the session, in the order handled.
C8_ExportGetsTheSession ==
    \A i \in 1..Len(handed) : DataOf(handed[i].log) = handed[i].session

\* C9: when a start makes the session active, the log is empty.
C9_StartBeginsWithEmptyLog ==
    [][(~recording /\ recording') => recorder' = <<>>]_vars

\* C10: onStopBtn while not recording changes neither the session, nor the
\* screens, nor the files, and gives nothing to the export step.
C10_StopWhileInactiveIsNoOp ==
    [][(lastOp' = "stop" /\ ~recording) =>
          UNCHANGED << recording, record_start, recorder, screens,
                       csv_files, png_files, handed >>]_vars

\* a stop on a session that was never started, with data on the screens
C10_Witness ==
    /\ lastOp = "stop"
    /\ handed = <<>>
    /\ applied # <<>>

\* C11: the handling of one delivered sample gives each screen exactly one
\* more value, the value of its channel, and appends exactly one entry with
\* the data of the sample to the log if the session is active at that
\* moment; if it is not, the log is left as it was.
C11_OneAddPointAndOneAppendIfRecording ==
    [][ Len(queue') < Len(queue) =>
          LET data == Head(queue)
          IN  /\ \A c \in Channels :
                    /\ added'[c] = Append(added[c], data[c])
                    /\ Last(screens'[c].points) = data[c]
              /\ recording =>
                    /\ Len(recorder') = Len(recorder) + 1
                    /\ SubSeq(recorder', 1, Len(recorder)) = recorder
                    /\ DataOf(recorder')[Len(recorder')] = data
              /\ ~recording => recorder' = recorder ]_vars

\* two samples handled, the first before the start, the second recorded
C11_Witness ==
    /\ lastOp = "new_data"
    /\ recording
    /\ Len(applied) = 2
    /\ Len(recorder) = 1
    /\ \A c \in Channels : Len(screens[c].points) = 2

\* C12: the GUI thread never waits for the polling thread: it is never
\* inside poller.join() while the polling thread has not ended.
C12_GuiNeverWaitsForPoller ==
    ~(gui = "joining" /\ pc # "stopped")

\* C13: a run whose poll_init succeeded ends only through poll_cleanup,
\* which runs once, after the last poll_once: every step that ends the
\* thread after a successful poll_init is the poll_cleanup step.
C13_EndsOnlyThroughCleanup ==
    [][(pc # "stopped" /\ pc' = "stopped" /\ thread_exc' # "poll_init")
          => pc = "cleanup"]_vars

\* C14: when poll_init fails the thread ends at once: the failing step posts
\* nothing and leaves the screens and the recording session as they were,
\* and afterwards poll_once never runs, so that no sample is ever posted or
\* put on a screen or in the log.
C14_InitFailureEndsTheRun ==
    /\ [][(thread_exc # "poll_init" /\ thread_exc' = "poll_init") =>
            /\ pc' = "stopped"
            /\ UNCHANGED << queue, sent, screens, recording, record_start,
                            recorder >>]_vars
    /\ [](thread_exc = "poll_init" =>
            /\ pc = "stopped"
            /\ sent = <<>>
            /\ queue = <<>>
            /\ recorder = <<>>
            /\ \A c \in Channels : screens[c] = NewScreen)

\* poll_init has failed and the user has since started a recording
C14_Witness ==
    /\ thread_exc = "poll_init"
    /\ lastOp = "start"
    /\ recording

\* C15: a stop whose export fails (the CSV or the images are not all
\* written) leaves the log as it was: every recorded sample, in order.
C15_FailedExportKeepsTheLog ==
    [][(Len(handed') > Len(handed) /\ png_files' = png_files)
          => recorder' = recorder]_vars

\* after a stop whose export failed, the recorded sample is still in the log
C15_Witness ==
    /\ lastOp = "stop"
    /\ ~recording
    /\ Len(handed) = 1
    /\ png_files = <<>>
    /\ recorder # <<>>
    /\ recorder = handed[1].log

\* C16: an export writes one CSV line per log entry, in log order, holding
\* timestamp - start_time and the x, y, z of the entry; each of the three
\* series gets one point per entry, in log order, with the same elapsed time
\* and the value of its channel; the elapsed times never decrease along a
\* log whose timestamps never decrease.  (Times are whole ticks, which "%f"
\* writes exactly.)
C16_ExportFollowsTheLog ==
    [][ /\ Len(csv_files') > Len(csv_files) =>
            LET csv == Last(csv_files')
            IN  /\ Len(csv.lines) = Len(recorder)
                /\ \A i \in 1..Len(recorder) :
                      /\ csv.lines[i][1] = recorder[i][1] - record_start
                      /\ << csv.lines[i][2], csv.lines[i][3], csv.lines[i][4] >>
                            = DataOf(recorder)[i]
                /\ \A i \in 1..(Len(recorder) - 1) :
                      recorder[i][1] <= recorder[i + 1][1]
                        => csv.lines[i][1] <= csv.lines[i + 1][1]
        /\ Len(png_files') > Len(png_files) =>
            LET png == Last(png_files')
                csv == Last(csv_files')
            IN  \A c \in Channels :
                  /\ Len(png.series[c]) = Len(recorder)
                  /\ \A i \in 1..Len(recorder) :
                        /\ png.series[c][i][1] = recorder[i][1] - record_start
                        /\ png.series[c][i][1] = csv.lines[i][1]
                        /\ png.series[c][i][2] = DataOf(recorder)[i][c] ]_vars

\* an export of two different samples recorded one tick apart
C16_Witness ==
    /\ Len(png_files) = 1
    /\ Len(csv_files) = 1
    /\ Len(csv_files[1].lines) = 2
    /\ csv_files[1].lines[1][1] < csv_files[1].lines[2][1]
    /\ csv_files[1].lines[1] # csv_files[1].lines[2]

\* C17: a stop on an active session whose log is empty leaves the session
\* inactive, with record_start back at 0 and an empty log.
C17_StopResetsAnEmptySession ==
    [][(recording /\ ~recording' /\ recorder = <<>>) =>
          (record_start' = 0 /\ recorder' = <<>>)]_vars

\* C18: once stop() has been called, at most one more poll_once completes:
\* at most one event is posted after the call.
C18_AtMostOnePollAfterStop ==
    _should_quit => Len(sent) <= sent_at_stop + 1

\* the poll_once in flight when stop() was called has posted its event and
\* the thread has then ended through poll_cleanup
C18_Witness ==
    /\ _should_quit
    /\ Len(sent) = sent_at_stop + 1
    /\ pc = "stopped"
    /\ thread_exc = "none"

\* C19: stop() only sets the flag, whatever the thread is doing, and the
\* flag stays set; once it is set the thread, scheduled fairly and with
\* every poll_once returning, ends, and an ended thread never runs again.
C19_StopLeadsToStopped ==
    /\ (_should_quit ~> pc = "stopped")
    /\ [][_should_quit => _should_quit']_vars
    /\ [][pc = "stopped" => pc' = "stopped"]_vars

\* stop() was called on a thread that had posted events, the thread ended
\* normally and join returned
C19_Witness ==
    /\ gui = "exited"
    /\ thread_exc = "none"
    /\ sent # <<>>
    /\ pc = "stopped"

\* C20: the timestamp of a log entry is the time at which the sample was
\* produced (its event posted), however long the event waited in the queue.
C20_LogKeepsTheProductionTime ==
    [][(recording /\ Len(queue') < Len(queue)) =>
          Last(recorder')[1] = Head(queue_time)]_vars

\* C21: on a window whose yrange has its lower bound below 0 and its upper
\* bound above 0, both loops of an add_point end, with the added value
\* inside yrange and the two bounds still on each side of 0.
C21_AddPointEndsAndKeepsTheSigns ==
    [][ \A c \in Channels :
          ( /\ added'[c] # added[c]
            /\ screens[c].yrange[1] < 0
            /\ 0 < screens[c].yrange[2] )
          => LET value == Last(added'[c])
             IN  /\ WhileAbove(value, screens[c].yrange[2], MaxDoublings).ended
                 /\ WhileBelow(value, screens[c].yrange[1], MaxDoublings).ended
                 /\ screens'[c].yrange[1] <= value
                 /\ value <= screens'[c].yrange[2]
                 /\ screens'[c].yrange[1] < 0
                 /\ 0 < screens'[c].yrange[2] ]_vars

\* initial (-1, 1): the first loop has run three times for the value 5
C21_Witness ==
    /\ added[1] = << 5 >>
    /\ screens[1].yrange = << -1, 8 >>

\* C22: a click on start while the frame is already recording leaves
\* record_start at the time of the start that began the recording, keeps
\* every tuple of the recorder, and changes nothing else of the frame.
C22_StartWhileRecordingChangesNothing ==
    [][ (lastOp' = "start" /\ recording)
        => /\ record_start' = record_start
           /\ recorder' = recorder
           /\ recording'
           /\ UNCHANGED << status, screens, csv_files, png_files, handed >> ]_vars

\* a start that follows a sample recorded in the running session, later
\* than the start that began it
C22_Witness ==
    /\ lastOp = "start"
    /\ recording
    /\ session # <<>>
    /\ recorder # <<>>
    /\ record_start < now

====
